---- MODULE Spec2Model ----
(***************************************************************************)
(* Model of backend/main.py: the in-memory retrieval engine (class         *)
(* VectorDB, the module-global vector_db) and the two request handlers     *)
(* that use it, POST /search (search_papers) and POST /ask (ask_question). *)
(*                                                                         *)
(* Both handlers are `async def` coroutines whose bodies contain no        *)
(* `await`: the event loop runs each body from its first statement to its  *)
(* return or raise without switching to another request.  Each handler is  *)
(* therefore one action.                                                   *)
(*                                                                         *)
(* A text is a sequence of characters.  The weights that TfidfVectorizer   *)
(* and cosine_similarity (scikit-learn) compute are real numbers; the      *)
(* model keeps of them what the library guarantees: the matrix has one row *)
(* per fitted text, a row carries the vocabulary terms of its text, a      *)
(* similarity is 0 exactly when query and row share no vocabulary term,    *)
(* and equal rows get equal similarities.  Otherwise a similarity is any   *)
(* of the levels 1..MaxSim.                                                *)
(***************************************************************************)
EXTENDS Integers, Sequences, FiniteSets

(* ------------------------------ bounds --------------------------------- *)

\* the store is not grown beyond this many chunks
MaxChunks == 3

\* largest max_results of a /search request, hence largest batch
MaxBatch == 2

\* largest top_k of an /ask request
MaxTopK == 2

\* number of distinct positive similarity levels
MaxSim == 2

(* -------------------------- program constants -------------------------- *)

\* chunk_size = 500
chunk_size == 500

\* TfidfVectorizer(max_features=1000, ...)
max_features == 1000

(* ------------------------------- texts --------------------------------- *)

Spaces(n) == [i \in 1..n |-> " "]

Min(a, b) == IF a <= b THEN a ELSE b

Max(a, b) == IF a >= b THEN a ELSE b

\* len(s)
PyLen(s) == Len(s)

\* s[i:j] for 0 <= i : the characters at 0-based positions i .. j-1 that exist
Slice(s, i, j) == SubSeq(s, i + 1, Min(j, Len(s)))

\* range(start, stop, step) for step > 0, as the sequence of its values
RECURSIVE Range(_, _, _)
Range(start, stop, step) ==
    IF start >= stop THEN <<>>
    ELSE <<start>> \o Range(start + step, stop, step)

\* as SummaryChunks, but a final chunk shorter than chunk_size is not produced
SummaryChunksDropTail(summary) ==
    LET starts == Range(0, PyLen(summary) - chunk_size + 1, chunk_size)
    IN  [k \in 1..Len(starts) |-> Slice(summary, starts[k], starts[k] + chunk_size)]

\* [paper.summary[i:i+chunk_size] for i in range(0, len(paper.summary), chunk_size)]
SummaryChunks(summary) ==
    LET starts == Range(0, PyLen(summary), chunk_size)
    IN  [k \in 1..Len(starts) |-> Slice(summary, starts[k], starts[k] + chunk_size)]

(* ------------------------------ papers --------------------------------- *)

AB == <<"A", "b">>

BA == <<"b", "a">>

\* What the paper source can return.  The summaries cover: empty; shorter
\* than a chunk, with a capital letter; exactly one chunk; one chunk and a remainder, with a word
\* cut by the chunk boundary; a text with no indexable term (a one-letter
\* word and an English stop word).
MkPaper(id, summary) ==
    [paper_id |-> id, title |-> id, authors |-> <<id>>, summary |-> summary,
     arxiv_url |-> id, pdf_url |-> id]

Papers ==
    { MkPaper("p1", AB),
      MkPaper("p2", AB \o Spaces(chunk_size - 3) \o <<"b", "a", "b">>),
      MkPaper("p3", <<>>),
      MkPaper("p4", <<"a", " ", "a", "n">>),
      MkPaper("p5", BA \o Spaces(chunk_size - 2)) }

\* the paper lists of at most n papers
Batches(n) == UNION { [1..k -> Papers] : k \in 0..n }

(* --------------------------- VectorDB.add_papers ----------------------- *)

\* enumerate(seq) starting at 1 instead of 0
EnumerateFromOne(seq) == [k \in 1..Len(seq) |-> <<k, seq[k]>>]

\* enumerate(seq): the pairs (i, element), i counting from 0
Enumerate(seq) == [k \in 1..Len(seq) |-> <<k - 1, seq[k]>>]

\* the dicts appended for one paper (the inner loop of add_papers)
PaperChunks(paper) ==
    LET summary_chunks == Enumerate(SummaryChunks(paper.summary))
    IN  [k \in 1..Len(summary_chunks) |->
            [paper_id    |-> paper.paper_id,
             title       |-> paper.title,
             authors     |-> paper.authors,
             arxiv_url   |-> paper.arxiv_url,
             pdf_url     |-> paper.pdf_url,
             chunk_index |-> summary_chunks[k][1],
             content     |-> summary_chunks[k][2]]]

\* the store keeps only the chunks of the latest call
AppendChunksReplacing(store, paper) == PaperChunks(paper)

\* self.chunks.append(...) for every chunk of one paper
AppendChunks(store, paper) == store \o PaperChunks(paper)

\* `for paper in papers:` of add_papers: the store after the loop
RECURSIVE AppendPapers(_, _)
AppendPapers(store, papers) ==
    IF papers = <<>> THEN store
    ELSE AppendPapers(AppendChunks(store, Head(papers)), Tail(papers))

(* ----------------- TfidfVectorizer(stop_words='english') --------------- *)

\* str.lower on the characters the papers and questions use
Lower(c) == CASE c = "A" -> "a" [] c = "B" -> "b" [] OTHER -> c

LowerText(t) == [i \in 1..Len(t) |-> Lower(t[i])]

\* \w of the token pattern
IsWordChar(c) == c # " "

\* the positions where a maximal run of word characters starts
WordStarts(t) ==
    { i \in 1..Len(t) : IsWordChar(t[i]) /\ (i = 1 \/ ~IsWordChar(t[i - 1])) }

\* the last position of the run that starts at i
WordEnd(t, i) ==
    CHOOSE j \in i..Len(t) :
        /\ \A k \in i..j : IsWordChar(t[k])
        /\ (j = Len(t) \/ ~IsWordChar(t[j + 1]))

Word(t, i) == SubSeq(t, i, WordEnd(t, i))

\* the words of scikit-learn's English stop list over the letters a, b, n
StopWords == { <<"a">>, <<"a", "n">> }

\* token_pattern (?u)\b\w\w+\b after lowercasing, stop words removed
TokenStarts(text) ==
    LET t == LowerText(text)
    IN  { i \in WordStarts(t) : Len(Word(t, i)) >= 2 /\ Word(t, i) \notin StopWords }

Terms(text) == { Word(LowerText(text), i) : i \in TokenStarts(text) }

TermCount(text, term) ==
    Cardinality({ i \in TokenStarts(text) : Word(LowerText(text), i) = term })

\* the texts with repeated contents dropped
TextsDeduplicated(store) ==
    LET all == [i \in 1..Len(store) |-> store[i].content]
        first == { i \in 1..Len(all) : \A j \in 1..(i - 1) : all[j] # all[i] }
        F[i \in 0..Len(all)] ==
            IF i = 0 THEN <<>>
            ELSE IF i \in first THEN Append(F[i - 1], all[i]) ELSE F[i - 1]
    IN  F[Len(all)]

\* texts = [chunk['content'] for chunk in self.chunks]
Texts(store) == [i \in 1..Len(store) |-> store[i].content]

\* the vocabulary fit() learns: every term of the texts, cut to the
\* max_features most frequent ones across the texts
Vocabulary(texts) ==
    LET all == UNION { Terms(texts[i]) : i \in 1..Len(texts) }
        Sum[i \in 0..Len(texts), t \in all] ==
            IF i = 0 THEN 0 ELSE Sum[i - 1, t] + TermCount(texts[i], t)
        freq(t) == Sum[Len(texts), t]
    IN  IF Cardinality(all) <= max_features THEN all
        ELSE CHOOSE V \in SUBSET all :
                /\ Cardinality(V) = max_features
                /\ \A t \in V, u \in all \ V : freq(t) >= freq(u)

\* one row of the matrix: the vocabulary terms of the text, with their counts
Row(text, vocabulary) ==
    [t \in (Terms(text) \cap vocabulary) |-> TermCount(text, t)]

\* fit_transform(texts): one row per text, in the order of the texts
Matrix(texts, vocabulary) == [i \in 1..Len(texts) |-> Row(texts[i], vocabulary)]

NoVectorizer == [set |-> FALSE, fitted |-> FALSE, vocabulary |-> {}]

NoMatrix == [set |-> FALSE, rows |-> <<>>]

(* ------------------------------- state --------------------------------- *)

VARIABLES
    chunks,        \* vector_db.chunks
    vectorizer,    \* vector_db.vectorizer (the attribute exists once assigned)
    tfidf_matrix,  \* vector_db.tfidf_matrix (the attribute exists once assigned)
    last           \* the request whose handler just ran and whose response is
                   \* being sent: its inputs, the handler's locals, the response

vars == <<chunks, vectorizer, tfidf_matrix, last>>

NoRequest ==
    [kind |-> "none", status |-> 0,
     \* /search: whether search_arxiv_papers returned, the papers it
     \* returned, whether add_papers was called and whether it returned
     papers |-> <<>>, fetched |-> FALSE, added |-> FALSE, indexed |-> FALSE,
     total_pages |-> 0,
     \* /ask: the request, whether vector_db.search raised, its locals and
     \* result, whether call_ollama was called and with how many chunks
     question |-> <<>>, top_k |-> 0, raised |-> FALSE, similarities |-> <<>>,
     top_indices |-> <<>>, results |-> <<>>, ollama |-> FALSE, context |-> 0]

\* VectorDB.__init__ ; vector_db = VectorDB()
Init ==
    /\ chunks = <<>>
    /\ vectorizer = NoVectorizer
    /\ tfidf_matrix = NoMatrix
    /\ last = NoRequest

(* ---------------------------- VectorDB.search -------------------------- *)

\* the guard without the hasattr test
SearchReturnsEarlyOnEmptyStoreOnly(matrix, store) == PyLen(store) = 0

\* if not hasattr(self, 'tfidf_matrix') or len(self.chunks) == 0: return []
SearchReturnsEarly(matrix, store) == ~matrix.set \/ PyLen(store) = 0

\* self.vectorizer.transform / cosine_similarity raise when the vectorizer
\* or the matrix is absent, or the vectorizer was never fit
SearchRaises(vec, matrix) == ~matrix.set \/ ~vec.set \/ ~vec.fitted

\* the vocabulary terms of the query: what vectorizer.transform([query]) keeps
QueryTerms(vec, query) == Terms(query) \cap vec.vocabulary

\* cosine_similarity(query_vec, self.tfidf_matrix).flatten(): one value per
\* matrix row; 0 exactly when the row shares no term with the query, equal
\* for equal rows
Similarities(vec, matrix, query) ==
    LET n == Len(matrix.rows)
        q == QueryTerms(vec, query)
    IN  { s \in [1..n -> 0..MaxSim] :
            /\ \A i \in 1..n : (s[i] = 0) <=> (DOMAIN matrix.rows[i] \cap q = {})
            /\ \A i, j \in 1..n : matrix.rows[i] = matrix.rows[j] => s[i] = s[j] }

\* similarities.argsort(): the 0-based positions in ascending order of
\* value.  numpy's default sort is not stable: equal values come in any order.
Argsort(s) ==
    LET n == Len(s)
    IN  { p \in [1..n -> 0..(n - 1)] :
            /\ \A i, j \in 1..n : i # j => p[i] # p[j]
            /\ \A i \in 1..(n - 1) : s[p[i] + 1] <= s[p[i + 1] + 1] }

\* a[start:] for any integer start
SliceFrom(a, start) ==
    LET n == Len(a)
        lo == IF start < 0 THEN Max(n + start, 0) ELSE Min(start, n)
    IN  SubSeq(a, lo + 1, n)

\* a[::-1]
Reversed(a) == [i \in 1..Len(a) |-> a[Len(a) + 1 - i]]

\* the slice without the reversal
TopIndicesAscending(order, top_k) == SliceFrom(order, -top_k)

\* top_indices = similarities.argsort()[-top_k:][::-1]
TopIndices(order, top_k) == Reversed(SliceFrom(order, -top_k))

\* the loop building `results`: {**chunk, 'similarity': similarities[idx]}
\* for every idx of top_indices that is a position of the store
Results(store, s, top_indices) ==
    LET keep == SelectSeq(top_indices, LAMBDA idx : idx < PyLen(store))
    IN  [k \in 1..Len(keep) |->
            [chunk |-> store[keep[k] + 1], similarity |-> s[keep[k] + 1]]]

(* ------------------------- POST /ask: ask_question --------------------- *)

\* the test is left out: an empty retrieval goes on to the model
NoRelevantChunksNever(relevant_chunks) == FALSE

\* if not relevant_chunks: raise HTTPException(status_code=404, ...)
NoRelevantChunks(relevant_chunks) == relevant_chunks = <<>>

\* the question texts of the requests
Questions == { <<"a", "b">>, <<"b", "a">>, <<"n", "n">> }

TopKs == (-1)..MaxTopK

\* The rest of ask_question once vector_db.search has returned s (the
\* similarities), ti (top_indices) and relevant_chunks.  ollama_ok: whether
\* call_ollama returns or raises HTTPException(500).
RespondToAsk(question, top_k, s, ti, relevant_chunks, ollama_ok) ==
    LET asked == [NoRequest EXCEPT !.kind = "ask", !.question = question,
                     !.top_k = top_k, !.similarities = s, !.top_indices = ti,
                     !.results = relevant_chunks]
    IN  IF NoRelevantChunks(relevant_chunks)
        THEN [asked EXCEPT !.status = 404]
        ELSE [asked EXCEPT !.ollama = TRUE,
                           !.context = Len(relevant_chunks),
                           !.status = IF ollama_ok THEN 200 ELSE 500]

AskQuestion ==
    \E question \in Questions, top_k \in TopKs, ollama_ok \in BOOLEAN :
        /\ last.kind = "none"
        /\ UNCHANGED <<chunks, vectorizer, tfidf_matrix>>
        /\ IF SearchReturnsEarly(tfidf_matrix, chunks)
           THEN last' = RespondToAsk(question, top_k, <<>>, <<>>, <<>>, ollama_ok)
           ELSE IF SearchRaises(vectorizer, tfidf_matrix)
           THEN \* caught by `except Exception`: HTTPException(500)
                last' = [NoRequest EXCEPT !.kind = "ask", !.question = question,
                            !.top_k = top_k, !.raised = TRUE, !.status = 500]
           ELSE \E s \in Similarities(vectorizer, tfidf_matrix, question) :
                \E order \in Argsort(s) :
                    LET ti == TopIndices(order, top_k)
                    IN  last' = RespondToAsk(question, top_k, s, ti,
                                             Results(chunks, s, ti), ollama_ok)

(* ----------------------- POST /search: search_papers ------------------- *)

\* add_papers is called whatever the paper source did
AddPapersCalledAlways(fetched) == TRUE

\* vector_db.add_papers(papers) is reached only when search_arxiv_papers
\* returned; its HTTPException leaves the try block before it
AddPapersCalled(fetched) == fetched

\* (len(papers) + page_size - 1) // page_size for page_size > 0
TotalPages(papers, page_size) == (Len(papers) + page_size - 1) \div page_size

PageSizes == { 0, 2 }

\* The handler.  page_size = 0 makes the pagination raise ZeroDivisionError
\* after add_papers has run: a 500 with the store updated.  fetched: whether search_arxiv_papers returned a list or
\* raised HTTPException(500); papers: the list it returned, of at most
\* max_results papers.
SearchPapers ==
    \E max_results \in 0..MaxBatch, page_size \in PageSizes, fetched \in BOOLEAN :
    \E papers \in Batches(max_results) :
        LET req == [NoRequest EXCEPT !.kind = "search", !.fetched = fetched,
                       !.added = AddPapersCalled(fetched)]
            got == IF fetched THEN papers ELSE <<>>
            store == AppendPapers(chunks, got)
            texts == Texts(store)
            vocabulary == Vocabulary(texts)
        IN  /\ last.kind = "none"
            /\ fetched \/ papers = <<>>
            /\ Len(store) <= MaxChunks
            /\ IF ~AddPapersCalled(fetched)
               THEN /\ UNCHANGED <<chunks, vectorizer, tfidf_matrix>>
                    /\ last' = [req EXCEPT !.status = 500]
               ELSE /\ chunks' = store
                    /\ IF store = <<>>
                       THEN \* `if self.chunks:` is false
                            /\ UNCHANGED <<vectorizer, tfidf_matrix>>
                            /\ last' = [req EXCEPT !.papers = got, !.indexed = TRUE,
                                   !.status = IF page_size = 0 THEN 500 ELSE 200,
                                   !.total_pages = IF page_size = 0 THEN 0
                                                   ELSE TotalPages(got, page_size)]
                       ELSE IF vocabulary = {}
                       THEN \* fit_transform raises ValueError (empty
                            \* vocabulary) after self.vectorizer was assigned
                            /\ vectorizer' = [set |-> TRUE, fitted |-> FALSE,
                                              vocabulary |-> {}]
                            /\ UNCHANGED tfidf_matrix
                            /\ last' = [req EXCEPT !.papers = got, !.status = 500]
                       ELSE /\ vectorizer' = [set |-> TRUE, fitted |-> TRUE,
                                              vocabulary |-> vocabulary]
                            /\ tfidf_matrix' = [set |-> TRUE,
                                                rows |-> Matrix(texts, vocabulary)]
                            /\ last' = [req EXCEPT !.papers = got, !.indexed = TRUE,
                                   !.status = IF page_size = 0 THEN 500 ELSE 200,
                                   !.total_pages = IF page_size = 0 THEN 0
                                                   ELSE TotalPages(got, page_size)]

(* --------------------------- GET /health ------------------------------- *)

\* call_ollama with a fixed greeting: 200, or 503 when it raises
HealthCheck ==
    \E ollama_ok \in BOOLEAN :
        /\ last.kind = "none"
        /\ UNCHANGED <<chunks, vectorizer, tfidf_matrix>>
        /\ last' = [NoRequest EXCEPT !.kind = "health", !.ollama = TRUE,
                       !.status = IF ollama_ok THEN 200 ELSE 503]

\* the response of the handler that just ran has been sent; the event loop
\* takes the next request
Respond ==
    /\ last.kind # "none"
    /\ last' = NoRequest
    /\ UNCHANGED <<chunks, vectorizer, tfidf_matrix>>

Next == SearchPapers \/ AskQuestion \/ HealthCheck \/ Respond

Spec == Init /\ [][Next]_vars

(* ------------------------------ properties ----------------------------- *)

\* ceil(a / b) for a >= 0, b > 0
CeilDiv(a, b) == (a + b - 1) \div b

\* the number of chunks one paper is expected to contribute
ExpectedCount(paper) == CeilDiv(Len(paper.summary), chunk_size)

\* the number of chunks the first k papers of a list are expected to contribute
RECURSIVE ExpectedTotal(_, _)
ExpectedTotal(papers, k) ==
    IF k = 0 THEN 0 ELSE ExpectedTotal(papers, k - 1) + ExpectedCount(papers[k])

\* the texts of a sequence, one after the other
RECURSIVE Concat(_)
Concat(texts) == IF texts = <<>> THEN <<>> ELSE Head(texts) \o Concat(Tail(texts))

\* the chunks of the store from 0-based position `from`, `n` of them
Segment(store, from, n) == SubSeq(store, from + 1, from + n)

\* a /search request whose add_papers call was made
Ingested(r) == r.kind = "search" /\ r.added

\* C1: every paper of the list just ingested, with a summary of length L,
\* has contributed exactly ceil(L / 500) chunks (none when L = 0), lying in
\* the store in paper order, numbered 0..n-1 in order, each of length 500
\* except possibly the last, and together spelling the summary.
C1_ChunksOfEachPaper ==
    Ingested(last) =>
        LET papers == last.papers
            total == ExpectedTotal(papers, Len(papers))
            base == Len(chunks) - total
        IN  /\ base >= 0
            /\ \A k \in 1..Len(papers) :
                LET n == ExpectedCount(papers[k])
                    seg == Segment(chunks, base + ExpectedTotal(papers, k - 1), n)
                IN  /\ Len(seg) = n
                    /\ \A j \in 1..n :
                        /\ seg[j].paper_id = papers[k].paper_id
                        /\ seg[j].chunk_index = j - 1
                        /\ j < n => Len(seg[j].content) = chunk_size
                        /\ Len(seg[j].content) \in 1..chunk_size
                    /\ Concat([j \in 1..n |-> seg[j].content]) = papers[k].summary

\* a list just ingested held an empty summary and one longer than a chunk
C1_Witness ==
    /\ Ingested(last)
    /\ \E k \in 1..Len(last.papers) : Len(last.papers[k].summary) = 0
    /\ \E k \in 1..Len(last.papers) : Len(last.papers[k].summary) > chunk_size
    /\ Len(chunks) >= 2

\* the (paper_id, chunk_index) pairs a list of papers is expected to append
RECURSIVE ExpectedKeys(_)
ExpectedKeys(papers) ==
    IF papers = <<>> THEN <<>>
    ELSE [j \in 1..ExpectedCount(Head(papers)) |-> <<Head(papers).paper_id, j - 1>>]
         \o ExpectedKeys(Tail(papers))

Keys(store) == [i \in 1..Len(store) |-> <<store[i].paper_id, store[i].chunk_index>>]

\* C2: every step keeps the chunks held before, unchanged and in place, as
\* a prefix of the store; an ingest adds after them exactly the chunks of
\* its papers, in paper order then chunk order, also for papers whose
\* paper_id the store holds already.
C2_AppendOnly ==
    [][ /\ Len(chunks') >= Len(chunks)
        /\ SubSeq(chunks', 1, Len(chunks)) = chunks
        /\ Ingested(last') =>
              /\ Len(chunks') = Len(chunks) + ExpectedTotal(last'.papers, Len(last'.papers))
              /\ Keys(SubSeq(chunks', Len(chunks) + 1, Len(chunks'))) = ExpectedKeys(last'.papers)
        /\ ~Ingested(last') => chunks' = chunks ]_vars

\* a list with chunks was ingested into a store that already held chunks of
\* one of its papers
C2_Witness ==
    /\ Ingested(last)
    /\ LET new == ExpectedTotal(last.papers, Len(last.papers))
       IN  /\ new > 0
           /\ \E i \in 1..(Len(chunks) - new), j \in (Len(chunks) - new + 1)..Len(chunks) :
                  chunks[i].paper_id = chunks[j].paper_id

\* C3: after an add_papers call that returned, a non-empty store has a
\* matrix with one row per chunk, row i computed from the content of chunk
\* i by a vectorizer fit on the contents of all the chunks; with an empty
\* store there is no matrix.
C3_IndexOfCurrentStore ==
    (last.kind = "search" /\ last.indexed) =>
        LET contents == [i \in 1..Len(chunks) |-> chunks[i].content]
        IN  IF chunks = <<>> THEN ~tfidf_matrix.set
            ELSE /\ tfidf_matrix.set
                 /\ vectorizer.set /\ vectorizer.fitted
                 /\ vectorizer.vocabulary = Vocabulary(contents)
                 /\ Len(tfidf_matrix.rows) = Len(chunks)
                 /\ \A i \in 1..Len(chunks) :
                        tfidf_matrix.rows[i] = Row(contents[i], vectorizer.vocabulary)

\* an ingest that added chunks to a store that held chunks already returned
C3_Witness ==
    /\ last.kind = "search" /\ last.indexed
    /\ LET new == ExpectedTotal(last.papers, Len(last.papers))
       IN  new > 0 /\ Len(chunks) > new
    /\ tfidf_matrix.set

\* C4: a search on a store without chunks, or without a matrix ever built,
\* returns the empty list and does not raise.
C4_EmptySearch ==
    (last.kind = "ask" /\ (Len(chunks) = 0 \/ ~tfidf_matrix.set)) =>
        /\ ~last.raised
        /\ last.results = <<>>

\* a search on a store that holds chunks but never got a matrix
C4_Witness ==
    /\ last.kind = "ask"
    /\ Len(chunks) > 0
    /\ ~tfidf_matrix.set

\* the 0-based store positions not among top_indices
NotReturned(r) == { i \in 0..(Len(chunks) - 1) : \A k \in 1..Len(r.top_indices) : r.top_indices[k] # i }

\* C5: with N >= 1 chunks, a matrix and top_k > 0, search returns
\* min(top_k, N) results, each another chunk of the store with its
\* similarity, in non-increasing order of similarity, none of them less
\* similar than a chunk left out.
C5_TopK ==
    (last.kind = "ask" /\ Len(chunks) >= 1 /\ tfidf_matrix.set /\ last.top_k > 0) =>
        LET ti == last.top_indices
            res == last.results
            s == last.similarities
        IN  /\ ~last.raised
            /\ Len(res) = Min(last.top_k, Len(chunks))
            /\ Len(ti) = Len(res)
            /\ \A k \in 1..Len(res) :
                /\ ti[k] \in 0..(Len(chunks) - 1)
                /\ res[k].chunk = chunks[ti[k] + 1]
                /\ res[k].similarity = s[ti[k] + 1]
            /\ \A k, l \in 1..Len(res) : k # l => ti[k] # ti[l]
            /\ \A k \in 1..(Len(res) - 1) : res[k].similarity >= res[k + 1].similarity
            /\ \A k \in 1..Len(res) : \A i \in NotReturned(last) :
                res[k].similarity >= s[i + 1]

\* two results of different similarity were returned and a chunk was left out
C5_Witness ==
    /\ last.kind = "ask"
    /\ Len(last.results) = 2
    /\ last.results[1].similarity > last.results[2].similarity
    /\ Len(chunks) > 2

\* C6: results of equal similarity come in ascending store position, and of
\* two chunks of equal similarity of which one is returned, it is the one
\* at the earlier position.
C6_TiesByPosition ==
    (last.kind = "ask" /\ last.top_k > 0) =>
        LET ti == last.top_indices
            s == last.similarities
        IN  /\ \A k, l \in 1..Len(ti) :
                (k < l /\ s[ti[k] + 1] = s[ti[l] + 1]) => ti[k] < ti[l]
            /\ \A k \in 1..Len(ti) : \A i \in NotReturned(last) :
                s[ti[k] + 1] = s[i + 1] => ti[k] < i

\* the chunk_index values, in store order, of the chunks of one paper_id
IndexesOf(store, id) ==
    LET mine == SelectSeq(store, LAMBDA c : c.paper_id = id)
    IN  [i \in 1..Len(mine) |-> mine[i].chunk_index]

PaperIds == { chunks[i].paper_id : i \in 1..Len(chunks) }

\* C7 as claimed: the chunk_index values of each paper_id, in store order,
\* are 0, 1, ..., n-1.
C7_ContiguousPerPaperId ==
    \A id \in PaperIds :
        LET ix == IndexesOf(chunks, id)
        IN  \A i \in 1..Len(ix) : ix[i] = i - 1

\* C7 as amended: the chunk_index values of each paper_id, in store order,
\* start at 0 and each next one is either the previous plus one or 0 again
\* (the start of the chunks of a later ingest of that paper_id).
C7_ContiguousPerIngest ==
    \A id \in PaperIds :
        LET ix == IndexesOf(chunks, id)
        IN  /\ ix[1] = 0
            /\ \A i \in 2..Len(ix) : ix[i] = ix[i - 1] + 1 \/ ix[i] = 0

\* the store holds the chunks of two ingests of one paper_id
C7_Witness ==
    \E i, j \in 1..Len(chunks) :
        /\ i < j
        /\ chunks[i].paper_id = chunks[j].paper_id
        /\ chunks[i].chunk_index = 0 /\ chunks[j].chunk_index = 0

\* Between two handler runs the index is never stale: a matrix, once
\* there, has one row per chunk of the store and its vectorizer is fit.
\* (C8 speaks of a query that meets another state; handlers do not
\* interleave, and the only state in which store and index differ is the
\* one after a fit that raised, where there is no matrix at all.)
NoStaleMatrix ==
    tfidf_matrix.set =>
        /\ vectorizer.set /\ vectorizer.fitted
        /\ Len(tfidf_matrix.rows) = Len(chunks)

\* C9: a /search request whose paper search failed answers 500 without
\* calling add_papers; store and index are what they were.
C9_FailedFetch ==
    [][ (last'.kind = "search" /\ ~last'.fetched) =>
            /\ last'.status = 500
            /\ ~last'.added
            /\ chunks' = chunks
            /\ vectorizer' = vectorizer
            /\ tfidf_matrix' = tfidf_matrix ]_vars

\* the paper search failed while the store held chunks and a matrix
C9_Witness ==
    /\ last.kind = "search" /\ ~last.fetched
    /\ last.status = 500
    /\ Len(chunks) > 0 /\ tfidf_matrix.set

\* C10: an /ask request leaves store and index as they were; when its
\* retrieval is empty, as it is whenever the store is empty, it answers 404
\* without calling the model; the model is called with the chunks
\* retrieved, at least one.
C10_AskReadOnly ==
    [][ last'.kind = "ask" =>
            /\ chunks' = chunks
            /\ vectorizer' = vectorizer
            /\ tfidf_matrix' = tfidf_matrix
            /\ chunks = <<>> => last'.results = <<>>
            /\ (last'.results = <<>> /\ ~last'.raised) =>
                   (last'.status = 404 /\ ~last'.ollama)
            /\ last'.ollama => (last'.context >= 1 /\ last'.context = Len(last'.results)) ]_vars

\* an /ask before any chunk was stored was answered 404 without the model
C10_Witness ==
    /\ last.kind = "ask"
    /\ chunks = <<>>
    /\ last.status = 404 /\ ~last.ollama

====
